---- MODULE Spec2Model ----
(***************************************************************************)
(* A model of src/src/Lab_2_4_LR2.py: the LinearRegressor class (fit by    *)
(* the normal equation or by batch gradient descent, predict) and the two  *)
(* stateless helpers evaluate_regression and one_hot_encode.               *)
(*                                                                         *)
(* Numbers.  The program computes in IEEE doubles; the model computes in   *)
(* exact rational arithmetic (reduced fractions <<n, d>>, d > 0), so what  *)
(* is checked is the algorithm, not its rounding.  The one float effect    *)
(* that decides a claim, 0.0 / 0.0 = nan, is modelled (FDiv).              *)
(*                                                                         *)
(* Arrays.  numpy arrays are objects: self.coefficients is a reference     *)
(* into `heap`, `-=` updates the object in place and .copy() allocates a   *)
(* new one.                                                                *)
(***************************************************************************)
EXTENDS Integers, Sequences, FiniteSets, TLC

VARIABLES
    self_coefficients,  \* self.coefficients: None or Some(address of an array in heap)
    self_intercept,     \* self.intercept: None or a number
    heap,               \* the arrays referenced: address -> sequence of numbers
    pc,                 \* "idle" between calls, "loop" inside the for of fit_gradient_descent
    args,               \* the arguments of the fit in progress (or of the last fit)
    epoch,              \* loop variable of fit_gradient_descent
    mse_list,           \* local list of fit_gradient_descent
    coefficients,       \* local list of fit_gradient_descent (of references)
    intercepts,         \* local list of fit_gradient_descent
    branch,             \* which branch of the conditional of line 118 the last epoch took
    ret,                \* the outcome of the last call: what it returned or raised
    pre,                \* the parameters (by value) when the last call began
    nfeat,              \* the feature columns of the X of the fit that last assigned self.coefficients
    er,                 \* evaluate_regression: its arguments and result
    oh                  \* one_hot_encode: its arguments and result

vars == <<self_coefficients, self_intercept, heap, pc, args, epoch, mse_list,
          coefficients, intercepts, branch, ret, pre, nfeat, er, oh>>

\* Python's None, and a value that may be None: <<>> or <<v>>.
None == <<>>
Some(v) == <<v>>
Get(o) == o[1]

\* A function on 1..n as the sequence of its values.
AsSeq(f) == f \o <<>>

-----------------------------------------------------------------------------
(* Exact numbers *)

Abs(n) == IF n < 0 THEN -n ELSE n

RECURSIVE GCD(_, _)
GCD(a, b) == IF b = 0 THEN a ELSE GCD(b, a % b)

\* The fraction n/d in lowest terms with a positive denominator (d # 0).
Rat(n, d) ==
    LET g == GCD(Abs(n), Abs(d))
        s == IF d < 0 THEN -1 ELSE 1
    IN  <<(s * n) \div g, (s * d) \div g>>

R(n) == <<n, 1>>
\* Sums and products, reduced before they are multiplied out.
RAdd(a, b) ==
    LET g == GCD(a[2], b[2])
    IN  Rat(a[1] * (b[2] \div g) + b[1] * (a[2] \div g), (a[2] \div g) * b[2])
RNeg(a) == <<-a[1], a[2]>>
RSub(a, b) == RAdd(a, RNeg(b))
RMul(a, b) ==
    LET g == GCD(Abs(a[1]), b[2])
        h == GCD(Abs(b[1]), a[2])
    IN  Rat((a[1] \div g) * (b[1] \div h), (a[2] \div h) * (b[2] \div g))
RDiv(a, b) == RMul(a, Rat(b[2], b[1]))
RAbs(a) == <<Abs(a[1]), a[2]>>

RECURSIVE RSum(_)
RSum(s) == IF s = <<>> THEN R(0) ELSE RAdd(s[1], RSum(Tail(s)))

Dot(u, v) == RSum(AsSeq([i \in 1..Len(u) |-> RMul(u[i], v[i])]))

\* A sequence of integers as a sequence of numbers, and a matrix likewise.
Vec(s) == AsSeq([i \in 1..Len(s) |-> R(s[i])])
Mat(m) == AsSeq([i \in 1..Len(m) |-> Vec(m[i])])

\* s[from:] of Python, from counted from 0.
From(s, from) == SubSeq(s, from + 1, Len(s))

Column(M, j) == AsSeq([i \in 1..Len(M) |-> M[i][j]])
NCols(M) == IF M = <<>> THEN 0 ELSE Len(M[1])

-----------------------------------------------------------------------------
(* Linear algebra, as numpy computes it on exact numbers *)

Transpose(M) == AsSeq([j \in 1..NCols(M) |-> Column(M, j)])

MatMul(A, B) ==
    AsSeq([i \in 1..Len(A) |-> AsSeq([j \in 1..NCols(B) |-> Dot(A[i], Column(B, j))])])

MatVec(A, v) == AsSeq([i \in 1..Len(A) |-> Dot(A[i], v)])

Without(s, i) == SubSeq(s, 1, i - 1) \o SubSeq(s, i + 1, Len(s))

\* M without row i and column j.
Minor(M, i, j) == AsSeq([r \in 1..(Len(M) - 1) |-> Without(Without(M, i)[r], j)])

Sign(n) == IF n % 2 = 0 THEN R(1) ELSE R(-1)

RECURSIVE Det(_)
Det(M) ==
    IF M = <<>> THEN R(1)
    ELSE RSum(AsSeq([j \in 1..Len(M) |->
                 RMul(RMul(Sign(1 + j), M[1][j]), Det(Minor(M, 1, j)))]))

Singular(M) == Det(M) = R(0)

\* np.linalg.inv of a square matrix that is not singular.
Inv(M) ==
    AsSeq([i \in 1..Len(M) |-> AsSeq([j \in 1..Len(M) |->
        RDiv(RMul(Sign(i + j), Det(Minor(M, j, i))), Det(M))])])

-----------------------------------------------------------------------------
(* LinearRegressor *)

Methods == {"least_squares", "gradient_descent"}

ValueErrorMethod == "ValueError: Method not available for training linear regression."
ValueErrorNotFitted == "ValueError: Model is not yet fitted"
ValueErrorShape == "ValueError: shapes not aligned"
AxisError == "AxisError: axis 1 is out of bounds"
LinAlgError == "LinAlgError: Singular matrix"
ZeroDivisionError == "ZeroDivisionError"
NoExc == "none"

\* The parameters by value.
Params ==
    [coefficients |-> IF self_coefficients = None THEN None
                      ELSE Some(heap[Get(self_coefficients)]),
     intercept |-> self_intercept]

\* Arrays no longer referenced once a new call begins (the lists a previous
\* fit returned) are dropped; self.coefficients, if set, is then array 1.
LiveHeap == IF self_coefficients = None THEN <<>> ELSE <<heap[Get(self_coefficients)]>>
LiveRef == IF self_coefficients = None THEN None ELSE Some(1)

\* An array is [ndim, data]: data is the sequence of its rows when ndim = 2 and
\* holds its elements as one row when ndim = 1.
Elems(X) == X.data[1]
\* An array of integers as an array of numbers.
Num(X) == [ndim |-> X.ndim, data |-> Mat(X.data)]

\* X.reshape(-1, 1) of a one-dimensional X.
Reshape(data) == AsSeq([i \in 1..Len(data) |-> <<data[i]>>])

\* np.insert(X, 0, 1, axis=1)
InsertOnes(X) == AsSeq([i \in 1..Len(X) |-> <<R(1)>> \o X[i]])

\* fit, lines 38-47: the exception raised before a method is dispatched to.
\* The checks of fit with the data read before the method is tested.
fit_checks_data_first(a) ==
    IF a.X.ndim \notin {1, 2} THEN AxisError
    ELSE IF a.method \notin Methods THEN ValueErrorMethod
    ELSE NoExc

fit_checks(a) ==
    IF a.method \notin Methods THEN ValueErrorMethod
    ELSE IF a.X.ndim \notin {1, 2} THEN AxisError
    ELSE NoExc

\* fit, lines 42-47: X_with_bias
X_with_bias(a) ==
    InsertOnes(IF a.X.ndim = 1 THEN Reshape(Elems(Num(a.X))) ELSE Num(a.X).data)

\* fit_multiple, lines 71-75: w, or the exception of np.linalg.inv.
normal_equation(X, y) ==
    LET X_t == Transpose(X)
        A == MatMul(X_t, X)
    IN  IF Singular(A) THEN [exc |-> LinAlgError, w |-> <<>>]
        ELSE [exc |-> NoExc, w |-> MatVec(MatMul(Inv(A), X_t), y)]

\* fit_multiple with the bias taken for the last column: intercept = w[-1],
\* coefficients = w[:-1].
fit_multiple_last(X, y) ==
    LET r == normal_equation(X, y)
    IN  IF r.exc # NoExc
        THEN [exc |-> r.exc, intercept |-> self_intercept,
              coefficients |-> Params.coefficients]
        ELSE [exc |-> NoExc, intercept |-> r.w[Len(r.w)],
              coefficients |-> Some(SubSeq(r.w, 1, Len(r.w) - 1))]

\* fit_multiple that resets self.intercept before it solves.
fit_multiple_reset(X, y) ==
    LET r == normal_equation(X, y)
    IN  IF r.exc # NoExc
        THEN [exc |-> r.exc, intercept |-> None,
              coefficients |-> Params.coefficients]
        ELSE [exc |-> NoExc, intercept |-> r.w[1],
              coefficients |-> Some(From(r.w, 1))]

\* fit_multiple that keeps the whole of w as the coefficients.
fit_multiple_whole(X, y) ==
    LET r == normal_equation(X, y)
    IN  IF r.exc # NoExc
        THEN [exc |-> r.exc, intercept |-> self_intercept,
              coefficients |-> Params.coefficients]
        ELSE [exc |-> NoExc, intercept |-> r.w[1],
              coefficients |-> Some(r.w)]

\* fit_multiple, lines 71-79: the parameters it leaves, and what it raised.
fit_multiple(X, y) ==
    LET r == normal_equation(X, y)
    IN  IF r.exc # NoExc
        THEN [exc |-> r.exc, intercept |-> self_intercept,
              coefficients |-> Params.coefficients]
        ELSE [exc |-> NoExc, intercept |-> r.w[1],
              coefficients |-> Some(From(r.w, 1))]

\* predict, lines 147-151, of the array X once the parameters are known to be
\* set: [exc, value].  The one-dimensional path broadcasts coefficients * X.
predict_fitted(X) ==
    LET c == heap[Get(self_coefficients)]
        b == self_intercept
        x == IF X.ndim = 1 THEN Elems(X) ELSE X.data
    IN  IF X.ndim = 1
        THEN IF Len(c) = Len(x) \/ Len(c) = 1 \/ Len(x) = 1
             THEN [exc |-> NoExc,
                   value |-> AsSeq([i \in 1..(IF Len(c) = 1 THEN Len(x) ELSE Len(c)) |->
                                RAdd(RMul(c[IF Len(c) = 1 THEN 1 ELSE i],
                                          x[IF Len(x) = 1 THEN 1 ELSE i]), b)])]
             ELSE [exc |-> ValueErrorShape, value |-> <<>>]
        ELSE IF NCols(x) # Len(c)
             THEN [exc |-> ValueErrorShape, value |-> <<>>]
             ELSE [exc |-> NoExc,
                   value |-> AsSeq([i \in 1..Len(x) |-> RAdd(Dot(x[i], c), b)])]

\* predict without the test of lines 144-145 raising.
predict_unguarded(X) ==
    IF self_coefficients = None \/ self_intercept = None
    THEN [exc |-> NoExc, value |-> <<>>]
    ELSE predict_fitted(X)

\* predict, lines 144-151.
predict(X) ==
    IF self_coefficients = None \/ self_intercept = None
    THEN [exc |-> ValueErrorNotFitted, value |-> <<>>]
    ELSE predict_fitted(X)

\* X[:, 1:] as an argument of predict.
Features(X) == [ndim |-> 2, data |-> AsSeq([i \in 1..Len(X) |-> From(X[i], 1)])]

\* fit_gradient_descent, lines 107-112, for the X, y and learning_rate of the
\* call: the error and the parameters after the update.
gd_update(X, y, learning_rate) ==
    LET m == Len(y)
        predictions == predict(Features(X)).value
        error == AsSeq([i \in 1..m |-> RSub(predictions[i], y[i])])
        gradient == AsSeq([j \in 1..NCols(X) |->
                       RMul(Rat(1, m), Dot(error, Column(X, j)))])
        c == heap[Get(self_coefficients)]
    IN  [error |-> error,
         intercept |-> RSub(self_intercept, RMul(learning_rate, gradient[1])),
         coefficients |-> AsSeq([j \in 1..Len(c) |->
                             RSub(c[j], RMul(learning_rate, gradient[j + 1]))])]

\* 1 / m * np.sum(error ** 2), lines 119 and 123
mse_of(error) == RMul(Rat(1, Len(error)), RSum(AsSeq([i \in 1..Len(error) |-> RMul(error[i], error[i])])))

DiagnosticPeriods == 10    \* iterations // 10, line 114
SamplePeriods == 100       \* iterations // 100, line 118
SampleThreshold == 1000    \* iterations > 1000, line 118

\* Line 114 and the test of line 118 for this epoch: the exception of a modulo
\* by zero, or the branch of line 118 that is taken.
gd_branch(ep, iters) ==
    IF iters \div DiagnosticPeriods = 0 THEN ZeroDivisionError
    ELSE IF iters \div SamplePeriods = 0 THEN ZeroDivisionError
    ELSE IF ep % (iters \div SamplePeriods) = 0 /\ iters > SampleThreshold THEN "if"
    ELSE "else"

\* Lines 119-121 (the if branch) and 123-125 (the else branch): the three lists
\* and the heap after the appends; c is the address of self.coefficients.
\* coefficients.append(self.coefficients.copy()) allocates the copy.
append_if(h, c, lists, error, intercept) ==
    [heap |-> Append(h, h[c]),
     mse_list |-> Append(lists[1], mse_of(error)),
     coefficients |-> Append(lists[2], Len(h) + 1),
     intercepts |-> Append(lists[3], intercept)]

\* The else branch appending self.coefficients itself, not a copy of it.
append_else_alias(h, c, lists, error, intercept) ==
    [heap |-> h,
     mse_list |-> Append(lists[1], mse_of(error)),
     coefficients |-> Append(lists[2], c),
     intercepts |-> Append(lists[3], intercept)]

append_else(h, c, lists, error, intercept) ==
    [heap |-> Append(h, h[c]),
     mse_list |-> Append(lists[1], mse_of(error)),
     coefficients |-> Append(lists[2], Len(h) + 1),
     intercepts |-> Append(lists[3], intercept)]

-----------------------------------------------------------------------------
(* Inputs *)

Array1(elems) == [ndim |-> 1, data |-> <<elems>>]
Array2(data) == [ndim |-> 2, data |-> data]
\* A scalar where an array is expected: np.insert(X, 0, 1, axis=1) rejects it.
Scalar == [ndim |-> 0, data |-> <<>>]

DefaultLearningRate == Rat(1, 100)    \* learning_rate=0.01, line 23
DefaultIterations == 1000             \* iterations=1000, line 23

\* Data whose augmented columns are orthogonal with squared norm m: gradient
\* descent with learning rate 1 or 2 then stays on finitely many values.
OneColumn == [X |-> Array2(<<<<1>>, <<-1>>>>), y |-> <<1, 3>>]
OneDim == [X |-> Array1(<<1, -1>>), y |-> <<1, 3>>]
TwoColumns == [X |-> Array2(<<<<1, 1>>, <<-1, 1>>, <<1, -1>>, <<-1, -1>>>>),
               y |-> <<4, 0, 8, 4>>]
\* Two equal rows: X^t X of the augmented matrix is singular.
Collinear == [X |-> Array2(<<<<1>>, <<1>>>>), y |-> <<1, 2>>]
Malformed == [X |-> Scalar, y |-> <<1, 2>>]

GDData == {OneColumn, OneDim, TwoColumns, Malformed}
FitData == GDData \cup {Collinear}

LearningRates == {R(1), R(2)}
\* One value of iterations on each side of every threshold of lines 114 and 118.
ShortIterations == {1, DiagnosticPeriods}
LongIterations == {SamplePeriods, SampleThreshold + 1}

\* np.random.rand() * 0.01 lies in [0, 0.01).
RandVals == {R(0), Rat(1, 200)}

FitArgs(d, method, learning_rate, iterations) ==
    [X |-> d.X, y |-> d.y, method |-> method,
     learning_rate |-> learning_rate, iterations |-> iterations]

FitInputs ==
    {FitArgs(d, m, DefaultLearningRate, DefaultIterations) :
        d \in FitData, m \in {"least_squares", "ridge"}}
    \cup {FitArgs(d, "gradient_descent", lr, it) :
        d \in GDData, lr \in LearningRates, it \in ShortIterations}

\* Gradient descent over a hundred epochs or more.  Its steps read nothing of
\* the parameters from before the call, and it is explored as the first call
\* on a model only.
LongFitInputs ==
    {FitArgs(d, "gradient_descent", R(2), it) : d \in GDData, it \in LongIterations}

PredictInputs ==
    {Array1(<<5>>), Array1(<<1, -1>>), Array1(<<1, 2, 3>>),
     Array2(<<<<1>>, <<-1>>>>), Array2(<<<<1, 2>>>>)}

-----------------------------------------------------------------------------
(* The calls *)

\* The feature columns of an X given to fit: 1 for a one-dimensional X.
FeatureCount(X) == IF X.ndim = 1 THEN 1 ELSE NCols(X.data)

NoCall == [call |-> "none", exc |-> NoExc, value |-> <<>>, arg |-> None]

InitRegressor ==
    /\ self_coefficients = None      \* __init__, line 15
    /\ self_intercept = None         \* __init__, line 16
    /\ heap = <<>>
    /\ pc = "idle"
    /\ args = FitArgs(Malformed, "", DefaultLearningRate, DefaultIterations)
    /\ epoch = 0
    /\ mse_list = <<>>
    /\ coefficients = <<>>
    /\ intercepts = <<>>
    /\ branch = "none"
    /\ ret = NoCall
    /\ pre = [coefficients |-> None, intercept |-> None]
    /\ nfeat = 0

Locals == <<epoch, mse_list, coefficients, intercepts, branch>>
Helpers == <<er, oh>>

\* The call raises exc having assigned nothing.
Raise(call, exc) ==
    /\ ret' = [call |-> call, exc |-> exc, value |-> <<>>, arg |-> None]
    /\ self_coefficients' = LiveRef
    /\ heap' = LiveHeap
    /\ UNCHANGED <<self_intercept, pc, nfeat, Locals>>

\* fit(X, y, method, learning_rate, iterations), lines 38-55, up to the first
\* epoch of fit_gradient_descent (whose lines 96-104 are part of this step).
Fit(a) ==
    /\ pc = "idle"
    /\ args' = a
    /\ pre' = Params
    /\ UNCHANGED Helpers
    /\ IF fit_checks(a) # NoExc THEN Raise("fit", fit_checks(a))
       ELSE IF a.method = "least_squares"
       THEN \E r \in {fit_multiple(X_with_bias(a), Vec(a.y))} :
                /\ self_intercept' = r.intercept
                /\ heap' = IF r.coefficients = None THEN <<>> ELSE <<Get(r.coefficients)>>
                /\ self_coefficients' = IF r.coefficients = None THEN None ELSE Some(1)
                /\ nfeat' = IF r.exc = NoExc THEN FeatureCount(a.X) ELSE nfeat
                /\ ret' = [call |-> "fit", exc |-> r.exc,
                           value |-> IF r.exc = NoExc THEN None ELSE <<>>, arg |-> None]
                /\ UNCHANGED <<pc, Locals>>
       ELSE \E c0 \in [1..(NCols(X_with_bias(a)) - 1) -> RandVals], b0 \in RandVals :
                /\ heap' = <<c0>>                       \* lines 97-99
                /\ self_coefficients' = Some(1)
                /\ self_intercept' = b0                 \* line 100
                /\ nfeat' = FeatureCount(a.X)
                /\ mse_list' = <<>>
                /\ coefficients' = <<>>
                /\ intercepts' = <<>>
                /\ epoch' = 0
                /\ branch' = "none"
                /\ pc' = "loop"
                /\ ret' = NoCall

\* One pass of the loop of fit_gradient_descent, lines 107-125.
Epoch ==
    /\ pc = "loop"
    /\ epoch < args.iterations
    /\ LET u == gd_update(X_with_bias(args), Vec(args.y), args.learning_rate)
           c == Get(self_coefficients)
           h == [heap EXCEPT ![c] = u.coefficients]     \* line 112, in place
           br == gd_branch(epoch, args.iterations)
           lists == <<mse_list, coefficients, intercepts>>
           ap == IF br = "if" THEN append_if(h, c, lists, u.error, u.intercept)
                 ELSE append_else(h, c, lists, u.error, u.intercept)
       IN  /\ self_intercept' = u.intercept             \* line 111
           /\ IF br = ZeroDivisionError
              THEN /\ heap' = <<h[c]>>
                   /\ self_coefficients' = Some(1)
                   /\ ret' = [call |-> "fit", exc |-> ZeroDivisionError,
                              value |-> <<>>, arg |-> None]
                   /\ pc' = "idle"
                   /\ mse_list' = <<>>
                   /\ coefficients' = <<>>
                   /\ intercepts' = <<>>
                   /\ UNCHANGED <<epoch, branch>>
              ELSE /\ heap' = ap.heap
                   /\ mse_list' = ap.mse_list
                   /\ coefficients' = ap.coefficients
                   /\ intercepts' = ap.intercepts
                   /\ branch' = br
                   /\ epoch' = epoch + 1
                   /\ UNCHANGED <<self_coefficients, ret, pc>>
    /\ UNCHANGED <<args, pre, nfeat, Helpers>>

\* The loop is over: lines 127 and 55.
Return ==
    /\ pc = "loop"
    /\ epoch = args.iterations
    /\ ret' = [call |-> "fit", exc |-> NoExc,
               value |-> <<mse_list, coefficients, intercepts>>, arg |-> None]
    /\ pc' = "idle"
    /\ mse_list' = <<>>
    /\ coefficients' = <<>>
    /\ intercepts' = <<>>
    /\ UNCHANGED <<self_coefficients, self_intercept, heap, args, epoch, branch,
                   pre, nfeat, Helpers>>

\* predict(X), lines 144-151.
Predict(X) ==
    /\ pc = "idle"
    /\ pre' = Params
    /\ ret' = [call |-> "predict", exc |-> predict(Num(X)).exc,
               value |-> predict(Num(X)).value, arg |-> Some(X)]
    /\ self_coefficients' = LiveRef
    /\ heap' = LiveHeap
    /\ UNCHANGED <<self_intercept, pc, args, nfeat, Locals, Helpers>>

InitHelpers ==
    /\ er = <<>>
    /\ oh = <<>>

Init == InitRegressor /\ InitHelpers

Next ==
    \/ \E a \in FitInputs : Fit(a)
    \/ ret = NoCall /\ \E a \in LongFitInputs : Fit(a)
    \/ Epoch
    \/ Return
    \/ \E X \in PredictInputs : Predict(X)

Spec == Init /\ [][Next]_vars

-----------------------------------------------------------------------------
(* evaluate_regression *)

\* A float: a finite number, the irrational square root of one, nan or an
\* infinity.
Fin(q) == [kind |-> "finite", val |-> q]
NaN == [kind |-> "nan", val |-> R(0)]
Inf == [kind |-> "inf", val |-> R(0)]
NegInf == [kind |-> "-inf", val |-> R(0)]

\* a / b on numpy floats: a division by zero gives nan or an infinity.
FDiv(a, b) ==
    IF b # R(0) THEN Fin(RDiv(a, b))
    ELSE IF a = R(0) THEN NaN
    ELSE IF a[1] > 0 THEN Inf ELSE NegInf

\* r_squared without the "1 -".
OneMinus_forgotten(x) == x

\* 1 - x, line 170
OneMinus(x) ==
    IF x.kind = "finite" THEN Fin(RSub(R(1), x.val))
    ELSE IF x.kind = "inf" THEN NegInf
    ELSE IF x.kind = "-inf" THEN Inf
    ELSE NaN

IsSquare(n) == \E r \in 0..n : r * r = n
Root(n) == CHOOSE r \in 0..n : r * r = n

\* np.sqrt of a number q >= 0
Sqrt(q) ==
    IF IsSquare(q[1]) /\ IsSquare(q[2]) THEN Fin(Rat(Root(q[1]), Root(q[2])))
    ELSE [kind |-> "sqrt", val |-> q]

SumSq(u, v) == RSum(AsSeq([i \in 1..Len(u) |-> RMul(RSub(u[i], v[i]), RSub(u[i], v[i]))]))
SumAbs(u, v) == RSum(AsSeq([i \in 1..Len(u) |-> RAbs(RSub(u[i], v[i]))]))

\* evaluate_regression(y_true, y_pred), lines 167-182, of two vectors of one
\* length.  With no element 1 / N (line 176) divides an int by zero.
evaluate_regression(y_true, y_pred) ==
    LET N == Len(y_true)
    IN  IF N = 0
        THEN [exc |-> ZeroDivisionError, R2 |-> NaN, RMSE |-> NaN, MAE |-> NaN]
        ELSE
          LET rss == SumSq(y_true, y_pred)
              y_mean == RDiv(RSum(y_true), R(N))
              tss == SumSq(y_true, AsSeq([i \in 1..N |-> y_mean]))
              r_squared == OneMinus(FDiv(rss, tss))
              mse == SumSq(y_true, y_pred)
              rmse == Sqrt(RMul(Rat(1, N), mse))
              mae_sum == SumAbs(y_true, y_pred)
              mae == RMul(Rat(1, N), mae_sum)
          IN  [exc |-> NoExc, R2 |-> r_squared, RMSE |-> rmse, MAE |-> Fin(mae)]

MaxLen == 3
MaxVal == 1
EvalVals == -1..MaxVal
Vectors(n) == {AsSeq(f) : f \in [1..n -> EvalVals]}

InitEval ==
    /\ InitRegressor
    /\ oh = <<>>
    /\ \E n \in 0..MaxLen : \E y_true \in Vectors(n), y_pred \in Vectors(n) :
           er = [y_true |-> y_true, y_pred |-> y_pred, out |-> None]

Evaluate ==
    /\ er.out = None
    /\ er' = [er EXCEPT !.out = Some(evaluate_regression(Vec(er.y_true), Vec(er.y_pred)))]
    /\ UNCHANGED <<self_coefficients, self_intercept, heap, pc, args, Locals,
                   ret, pre, nfeat, oh>>

SpecEval == InitEval /\ [][Evaluate]_vars

-----------------------------------------------------------------------------
(* one_hot_encode *)

\* A two-dimensional array with its shape (it may have no row): [nrows, ncols, rows].
Shaped(nrows, ncols, rows) == [nrows |-> nrows, ncols |-> ncols, rows |-> rows]

IndexError == "IndexError: too many indices for array"
ValueErrorDims == "ValueError: all the input arrays must have same number of dimensions"

Max(S) == CHOOSE m \in S : \A n \in S : n <= m
Min(S) == CHOOSE m \in S : \A n \in S : m <= n

\* sorted(categorical_indices, reverse=True)
RECURSIVE SortedReverse(_)
SortedReverse(S) == IF S = {} THEN <<>> ELSE <<Max(S)>> \o SortedReverse(S \ {Max(S)})

RECURSIVE Sorted(_)
Sorted(S) == IF S = {} THEN <<>> ELSE <<Min(S)>> \o Sorted(S \ {Min(S)})

\* np.unique(column): the values of the column in increasing order, each once.
unique(column) == Sorted({column[i] : i \in 1..Len(column)})

\* np.delete(A, index, 1), index counted from 0
delete(A, index) ==
    Shaped(A.nrows, A.ncols - 1,
           AsSeq([i \in 1..A.nrows |-> Without(A.rows[i], index + 1)]))

\* Lines 200-201: the categorical columns deleted, the highest index first.
RECURSIVE delete_all(_, _)
delete_all(A, indices) ==
    IF indices = <<>> THEN A ELSE delete_all(delete(A, Head(indices)), Tail(indices))

\* Lines 211-214: one row per row of the column, one entry per unique value.
one_hot_values(categorical_column, unique_values) ==
    AsSeq([i \in 1..Len(categorical_column) |->
        AsSeq([v \in 1..Len(unique_values) |->
            IF categorical_column[i] = unique_values[v] THEN 1 ELSE 0])])

\* drop_first ignored.
dropped_never(one_hot, drop_first) == one_hot

\* Lines 228-229: one_hot[:, 1:] when drop_first.
dropped(one_hot, drop_first) ==
    IF drop_first
    THEN Shaped(one_hot.nrows, IF one_hot.ncols = 0 THEN 0 ELSE one_hot.ncols - 1,
                AsSeq([i \in 1..one_hot.nrows |-> From(one_hot.rows[i], 1)]))
    ELSE one_hot

\* np.concatenate((A, B), axis=1)
concatenate(A, B) ==
    Shaped(A.nrows, A.ncols + B.ncols,
           AsSeq([i \in 1..A.nrows |-> A.rows[i] \o B.rows[i]]))

\* Lines 203-232: the loop over the categorical columns, the highest index first.
\* np.array of an empty list of rows is one-dimensional: with no row in X,
\* one_hot[:, 1:] raises IndexError and np.concatenate raises ValueError.
RECURSIVE encode_all(_, _, _, _)
encode_all(X, indices, drop_first, X_transformed) ==
    IF indices = <<>> THEN [exc |-> NoExc, value |-> X_transformed]
    ELSE IF X.nrows = 0
    THEN [exc |-> IF drop_first THEN IndexError ELSE ValueErrorDims,
          value |-> X_transformed]
    ELSE
      LET categorical_column == AsSeq([i \in 1..X.nrows |-> X.rows[i][Head(indices) + 1]])
          unique_values == unique(categorical_column)
          one_hot == Shaped(X.nrows, Len(unique_values),
                            one_hot_values(categorical_column, unique_values))
      IN  encode_all(X, Tail(indices), drop_first,
                     concatenate(dropped(one_hot, drop_first), X_transformed))

\* one_hot_encode(X, categorical_indices, drop_first), lines 198-234
one_hot_encode(X, categorical_indices, drop_first) ==
    encode_all(X, SortedReverse(categorical_indices), drop_first,
               delete_all(X, SortedReverse(categorical_indices)))

MaxRows == 3
MaxCols == 2
\* The values of the cells: the categories, or numbers.
CellVals == {1, 2}

InitEncode ==
    /\ InitRegressor
    /\ er = <<>>
    /\ \E r \in 0..MaxRows, c \in 0..MaxCols :
         \E rows \in [1..r -> {AsSeq(row) : row \in [1..c -> CellVals]}],
            categorical_indices \in SUBSET (0..(c - 1)),
            drop_first \in BOOLEAN :
              oh = [X |-> Shaped(r, c, AsSeq(rows)),
                    categorical_indices |-> categorical_indices,
                    drop_first |-> drop_first,
                    out |-> None]

Encode ==
    /\ oh.out = None
    /\ oh' = [oh EXCEPT !.out =
                Some(one_hot_encode(oh.X, oh.categorical_indices, oh.drop_first))]
    /\ UNCHANGED <<self_coefficients, self_intercept, heap, pc, args, Locals,
                   ret, pre, nfeat, er>>

SpecEncode == InitEncode /\ [][Encode]_vars

-----------------------------------------------------------------------------
(* Least squares on a fresh model, then predict on the X of the fit *)

MaxLSVal == 1
LSVals == -1..MaxLSVal
\* The values of the targets.
LSTargets == {-1, 2}
\* <<rows, feature columns>>
LSShapes == {<<2, 1>>, <<3, 1>>, <<3, 2>>}
LSLengths == {2, 3}

LeastSquares(X, y) ==
    Fit(FitArgs([X |-> X, y |-> y], "least_squares", DefaultLearningRate, DefaultIterations))

FitMatrix ==
    /\ ret = NoCall
    /\ \E sh \in LSShapes :
         \E rows \in [1..sh[1] -> {AsSeq(row) : row \in [1..sh[2] -> LSVals]}],
            y \in [1..sh[1] -> LSTargets] :
              LeastSquares(Array2(AsSeq(rows)), AsSeq(y))

FitVector ==
    /\ ret = NoCall
    /\ \E n \in LSLengths :
         \E x \in [1..n -> LSVals], y \in [1..n -> LSTargets] :
              LeastSquares(Array1(AsSeq(x)), AsSeq(y))

\* More rows than augmented columns, with two features.
FourRows ==
    {TwoColumns.X.data,
     <<<<1, 0>>, <<2, 1>>, <<0, 1>>, <<1, 1>>>>,
     <<<<0, 0>>, <<1, 2>>, <<2, 1>>, <<-1, 1>>>>,
     <<<<1, 2>>, <<2, 4>>, <<0, 0>>, <<-1, -2>>>>}

FitFourRows ==
    /\ ret = NoCall
    /\ \E rows \in FourRows, y \in [1..4 -> LSTargets] :
           LeastSquares(Array2(rows), AsSeq(y))

\* X = [[1],[2],[3],[4]], y = [2,4,6,8]
FitScenario ==
    /\ ret = NoCall
    /\ LeastSquares(Array2(<<<<1>>, <<2>>, <<3>>, <<4>>>>), <<2, 4, 6, 8>>)

PredictSame ==
    /\ ret.call = "fit"
    /\ Predict(args.X)

NextLS == FitMatrix \/ FitVector \/ FitFourRows \/ FitScenario \/ PredictSame

SpecLS == Init /\ [][NextLS]_vars

-----------------------------------------------------------------------------
(* Properties of the LinearRegressor, under Spec *)

FitReturned == pc = "idle" /\ ret.call = "fit"
Unset == self_coefficients = None /\ self_intercept = None
BothSet == self_coefficients # None /\ self_intercept # None

\* C1: a fit that raises (unrecognized method, singular X^t X, a division
\* fault inside gradient descent) leaves intercept and coefficients as they
\* were before the call.
C1_FailedFitChangesNothing ==
    (FitReturned /\ ret.exc # NoExc) => Params = pre

\* C2: for every positive iterations and every valid (X, y), fit by gradient
\* descent runs exactly `iterations` epochs and returns three lists of length
\* `iterations`.
C2_RunsAllEpochs ==
    (FitReturned /\ args.method = "gradient_descent" /\ args.X.ndim \in {1, 2}
        /\ args.iterations > 0)
    => /\ ret.exc = NoExc
       /\ epoch = args.iterations
       /\ \A l \in 1..3 : Len(ret.value[l]) = args.iterations

\* C3: predict on a model whose coefficients or intercept is unset raises the
\* not-fitted error, whatever X is, and leaves the parameters as they were
\* (unset).
C3_PredictUnfittedFails ==
    (pc = "idle" /\ ret.call = "predict"
        /\ (pre.coefficients = None \/ pre.intercept = None))
    => /\ ret.exc = ValueErrorNotFitted
       /\ Params = pre

C3_Witness ==
    /\ pc = "idle" /\ ret.call = "predict"
    /\ pre.coefficients = None /\ pre.intercept = None
    /\ ret.arg = Some(Array2(<<<<1, 2>>>>))
    /\ ret.exc = ValueErrorNotFitted
    /\ Unset

\* C4: fit with a method that is neither least_squares nor gradient_descent
\* raises the invalid-method error before X or y is read, for every X and y
\* (malformed ones included), and intercept and coefficients keep their
\* values.
C4_UnknownMethodFails ==
    (FitReturned /\ args.method \notin Methods)
    => /\ ret.exc = ValueErrorMethod
       /\ Params = pre

C4_Witness ==
    /\ FitReturned
    /\ args.method \notin Methods
    /\ args.X = Scalar
    /\ ret.exc = ValueErrorMethod
    /\ BothSet
    /\ Params = pre

\* C8: between calls intercept is unset exactly when coefficients is unset, and
\* once both are set no step unsets either of them.
C8_NeverPartiallySet ==
    /\ [](pc = "idle" => ((self_intercept = None) <=> (self_coefficients = None)))
    /\ [][BothSet => BothSet']_vars

C8_Witness ==
    /\ FitReturned
    /\ ret.exc = LinAlgError
    /\ BothSet
    /\ pre.coefficients # None

\* C9: whenever coefficients is set, its length is the number of feature
\* columns of the X of the fit that last assigned it (1 for a one-dimensional
\* X), for least squares and for gradient descent, at every epoch.
C9_CoefficientsLength ==
    self_coefficients # None => Len(heap[Get(self_coefficients)]) = nfeat

C9_Witness ==
    /\ pc = "loop"
    /\ nfeat = 2
    /\ pre.coefficients # None
    /\ Len(Get(pre.coefficients)) = 1
    /\ Len(heap[Get(self_coefficients)]) = 2

\* C10: at the end of every epoch k each of the three lists has k + 1 entries,
\* whichever branch of line 118 was taken; the last coefficients and intercept
\* entries are the parameters right after that epoch's update; an entry once
\* recorded is never changed by a later epoch; and on return the last entries
\* are the model's coefficients and intercept.
C10_Recorded ==
    pc = "loop" =>
        /\ Len(mse_list) = epoch
        /\ Len(coefficients) = epoch
        /\ Len(intercepts) = epoch
        /\ epoch > 0 =>
             /\ heap[coefficients[epoch]] = heap[Get(self_coefficients)]
             /\ intercepts[epoch] = self_intercept

C10_Returned ==
    (FitReturned /\ ret.exc = NoExc /\ args.method = "gradient_descent")
    => LET n == Len(ret.value[2])
       IN  n > 0 =>
             /\ heap[ret.value[2][n]] = heap[Get(self_coefficients)]
             /\ ret.value[3][n] = self_intercept

C10_Kept ==
    pc = "loop" =>
        \A i \in 1..epoch :
            /\ pc' = "loop" =>
                 /\ mse_list'[i] = mse_list[i]
                 /\ heap'[coefficients'[i]] = heap[coefficients[i]]
                 /\ intercepts'[i] = intercepts[i]
            /\ (pc' = "idle" /\ ret'.exc = NoExc) =>
                 /\ ret'.value[1][i] = mse_list[i]
                 /\ heap'[ret'.value[2][i]] = heap[coefficients[i]]
                 /\ ret'.value[3][i] = intercepts[i]

C10_Histories == []C10_Recorded /\ []C10_Returned /\ [][C10_Kept]_vars

C10_Witness ==
    /\ FitReturned /\ ret.exc = NoExc
    /\ args.iterations > SampleThreshold
    /\ Len(ret.value[2]) = args.iterations
    /\ branch = "if"
    /\ heap[ret.value[2][1]] # heap[ret.value[2][2]]
    /\ ret.value[3][1] # ret.value[3][2]

-----------------------------------------------------------------------------
(* Least squares, under SpecLS *)

\* The feature columns of the X given to fit, as vectors.
FeatureColumns(X) ==
    IF X.ndim = 1 THEN <<Vec(Elems(X))>> ELSE Transpose(Mat(X.data))

Residuals == AsSeq([i \in 1..Len(args.y) |-> RSub(R(args.y[i]), ret.value[i])])

\* C7: when the augmented matrix has full column rank (the fit does not
\* raise), after fit by least squares the residuals y - predict(X) sum to zero
\* and are orthogonal to every feature column of X.
C7_NormalEquations ==
    (pc = "idle" /\ ret.call = "predict" /\ ret.exc = NoExc)
    => /\ Len(ret.value) = Len(args.y)
       /\ RSum(Residuals) = R(0)
       /\ \A j \in 1..Len(FeatureColumns(args.X)) :
              Dot(Residuals, FeatureColumns(args.X)[j]) = R(0)

C7_Witness ==
    /\ pc = "idle" /\ ret.call = "predict" /\ ret.exc = NoExc
    /\ nfeat = 2
    /\ \E i \in 1..Len(args.y) : Residuals[i] # R(0)
    /\ RSum(Residuals) = R(0)

-----------------------------------------------------------------------------
(* evaluate_regression, under SpecEval *)

Perfect == er.out # None /\ er.y_true = er.y_pred /\ Len(er.y_true) >= 1
Constant(y) == \A i, j \in 1..Len(y) : y[i] = y[j]
ExactlyPerfect(out) ==
    /\ out.exc = NoExc
    /\ out.R2 = Fin(R(1))
    /\ out.RMSE = Fin(R(0))
    /\ out.MAE = Fin(R(0))

\* C6, as claimed: for every non-empty y, evaluate_regression(y, y) returns
\* exactly R2 = 1, RMSE = 0 and MAE = 0.
C6_PerfectAny == Perfect => ExactlyPerfect(Get(er.out))

\* C6, amended: for every y with at least two distinct values,
\* evaluate_regression(y, y) returns exactly R2 = 1, RMSE = 0 and MAE = 0.
C6_PerfectNotConstant ==
    (Perfect /\ ~Constant(er.y_true)) => ExactlyPerfect(Get(er.out))

C6_Witness ==
    /\ Perfect
    /\ er.y_true = <<-1, 0, 1>>
    /\ ExactlyPerfect(Get(er.out))

-----------------------------------------------------------------------------
(* one_hot_encode, under SpecEncode *)

\* The distinct values of column index (counted from 0) of X.
Categories(X, index) == {X.rows[i][index + 1] : i \in 1..X.nrows}

\* The entries of a row at the positions (counted from 0) in or not in S.
RECURSIVE Pick(_, _, _, _)
Pick(row, S, in, k) ==
    IF k > Len(row) THEN <<>>
    ELSE (IF ((k - 1) \in S) = in THEN <<row[k]>> ELSE <<>>) \o Pick(row, S, in, k + 1)

\* The sum over the columns in S of (unique values - (1 if drop_first else 0)).
RECURSIVE IndicatorColumns(_, _, _)
IndicatorColumns(X, S, drop_first) ==
    IF S = {} THEN 0
    ELSE LET index == CHOOSE index \in S : TRUE
         IN  Cardinality(Categories(X, index)) - (IF drop_first THEN 1 ELSE 0)
                 + IndicatorColumns(X, S \ {index}, drop_first)

ExpectedColumns(X, S, drop_first) ==
    (X.ncols - Cardinality(S)) + IndicatorColumns(X, S, drop_first)

Encoded(X, S, drop_first, out) ==
    LET rest == X.ncols - Cardinality(S)
        A == out.value
        Indicator(i) == SubSeq(A.rows[i], 1, A.ncols - rest)
    IN  /\ out.exc = NoExc
        /\ A.nrows = X.nrows
        /\ Len(A.rows) = X.nrows
        /\ A.ncols = ExpectedColumns(X, S, drop_first)
        /\ \A i \in 1..X.nrows :
             /\ Len(A.rows[i]) = A.ncols
             /\ From(A.rows[i], A.ncols - rest) = Pick(X.rows[i], S, FALSE, 1)
             /\ \A k \in 1..(A.ncols - rest) : A.rows[i][k] \in {0, 1}
             /\ \A j \in 1..X.nrows :
                  (Indicator(i) = Indicator(j))
                      <=> (Pick(X.rows[i], S, TRUE, 1) = Pick(X.rows[j], S, TRUE, 1))

\* C5, as claimed: for every 2D X, every set of categorical indices and both
\* values of drop_first, one_hot_encode returns the rows in their order, the
\* indicator columns before the remaining columns, and as many columns as
\* (columns - categorical columns) + the sum over the categorical columns of
\* (unique values - (1 if drop_first else 0)).
C5_EncodedAny ==
    oh.out # None =>
        Encoded(oh.X, oh.categorical_indices, oh.drop_first, Get(oh.out))

\* C5, amended: the same for every X with at least one row (or with no
\* categorical column).
C5_EncodedWithRows ==
    (oh.out # None /\ (oh.X.nrows >= 1 \/ oh.categorical_indices = {})) =>
        Encoded(oh.X, oh.categorical_indices, oh.drop_first, Get(oh.out))

C5_Witness ==
    /\ oh.out # None
    /\ oh.X.rows = <<<<1, 2>>, <<2, 2>>, <<1, 1>>>>
    /\ oh.categorical_indices = {0, 1}
    /\ oh.drop_first
    /\ Get(oh.out).value.rows = <<<<0, 1>>, <<1, 1>>, <<0, 0>>>>

====
